---- MODULE Spec2Model ----
(***************************************************************************)
(* Model of the worker pool of try-nestjs-worker-thread:                   *)
(*   AppService.heavyComputation / spawn / terminate (src/app.service.ts)  *)
(*   and the scan handler of salt.worker.ts.                               *)
(* The main thread is one event loop: a synchronous stretch of code is one *)
(* action, and worker events are handled only while heavyComputation is    *)
(* suspended at an await.  Each worker is its own thread and advances one  *)
(* loop iteration per step.                                                *)
(***************************************************************************)
EXTENDS Integers, Sequences, FiniteSets, TLC

\* Bounds of the model: the inputs heavyComputation is run with.
MaxWorkerNum == 2
MaxMax == 4
\* Bounds of the mocked-worker harness: its workers, and the events they emit in all.
MaxMockWorkers == 2
MaxEvents == 3

VARIABLES
  workerNum,   \* const workerNum of heavyComputation
  max,         \* the max handed to every worker
  probe,       \* the salts whose derived address ends with 'd3ad'
  pc,          \* position of heavyComputation
  i,           \* loop variable of the spawn loop
  workers,     \* let workers: Worker[]
  promises,    \* let promises: Promise<any>[], each named by its worker
  result,      \* let result
  caught,      \* the error bound in the catch clause
  thrown,      \* the error heavyComputation throws to its caller, if any
  port,        \* per worker: the Message posted to it and not yet received
  wstate,      \* per worker: liveness of its thread
  data,        \* per worker: the Message its handler received
  wi,          \* per worker: loop variable i of the scan
  examined,    \* per worker: the candidates it hashed, in order
  posted,      \* per worker: the messages it posted to the parent, in order
  inbox,       \* per worker: events on their way to the main thread
  listeners,   \* per worker: events that still have a once-listener
  promise,     \* per worker: the promise made by spawn
  anyState,    \* the promise returned by Promise.any
  anyValue,
  anyErrors,
  termPending, \* workers whose terminate() promise is not yet resolved
  terminated,  \* workers whose terminate() promise has resolved
  crashed,     \* workers whose thread died of an uncaught fault
  received,    \* per worker: the message its 'message' listener was called with
  firstFound   \* the first salt message a message listener received

vars == <<workerNum, max, probe, pc, i, workers, promises, result, caught, thrown,
          terminated, port, wstate,
          data, wi, examined, posted, inbox, listeners, promise, anyState,
          anyValue, anyErrors, termPending, crashed, received, firstFound>>

coordVars0 == <<i, workers, promises, result, caught, thrown>>
coordVars == <<pc, i, workers, promises, result, caught, thrown>>
inputVars == <<workerNum, max, probe>>
scanVars == <<data, wi, examined, posted>>
raceVars == <<promise, anyState, anyValue, anyErrors, received, firstFound>>

Ids == 0 .. (workerNum - 1)

\* ---------------------------------------------------------------- values

Undefined == [type |-> "undefined"]
Empty == [type |-> "empty"]
Pending == [state |-> "pending"]

\* class Message { workerNumber; offset; max }
Message(n, o, m) == [workerNumber |-> n, offset |-> o, max |-> m]

\* parentPort.postMessage({ salt: i })
SaltMsg(s) == [salt |-> s]

\* parentPort.postMessage(new Error('Not Found')), as the parent receives it
NotFoundMsg == [name |-> "Error", message |-> "Not Found"]

\* the value of an 'error' event: the worker's uncaught exception
UncaughtError == [name |-> "Error", message |-> "uncaught"]

\* new Error(`Worker stopped with exitcode ${code}`)
ExitError(code) == [name |-> "Error", message |-> "Worker stopped with exitcode", code |-> code]

\* what new Worker(...) throws when the thread cannot be created
SpawnError == [name |-> "Error", message |-> "worker init failed"]

\* the AggregateError Promise.any rejects with
AggregateError(errs) == [name |-> "AggregateError", errors |-> errs]

MessageEvent(m) == [type |-> "message", data |-> m]
ErrorEvent == [type |-> "error", err |-> UncaughtError]
ExitEvent(code) == [type |-> "exit", code |-> code]

\* msg.isSuccess as JavaScript evaluates it: a missing field is undefined, falsy
IsSuccess(msg) == "isSuccess" \in DOMAIN msg /\ msg.isSuccess = TRUE

\* address.toLowerCase().endsWith('d3ad') for the address derived from salt c
Matches(c) == c \in probe

\* ---------------------------------------------------------------- worker

\* a stride that skips one candidate too many
NextCandidateSkips(c, n) == c + n + 1

\* i += data.workerNumber
NextCandidate(c, n) == c + n

\* a loop condition that is off by one
InBoundsInclusive(c, m) == c <= m

\* i < data.max
InBounds(c, m) == c < m

\* the candidates the loop  for (i = offset; i < max; i += workerNumber)  visits
RECURSIVE ScanFrom(_, _, _)
ScanFrom(c, m, n) ==
  IF InBounds(c, m) THEN <<c>> \o ScanFrom(NextCandidate(c, n), m, n) ELSE <<>>

Partition(msg) == ScanFrom(msg.offset, msg.max, msg.workerNumber)

Range(s) == {s[k] : k \in 1 .. Len(s)}

\* parentPort.on('message', (data) => { for (let i = data.offset; ...
WorkerReceive(w) ==
  /\ wstate[w] = "waiting"
  /\ port[w] # Empty
  /\ data' = [data EXCEPT ![w] = port[w]]
  /\ wi' = [wi EXCEPT ![w] = port[w].offset]
  /\ port' = [port EXCEPT ![w] = Empty]
  /\ wstate' = [wstate EXCEPT ![w] = "scanning"]
  /\ UNCHANGED <<inputVars, coordVars, examined, posted, inbox, listeners,
                 raceVars, termPending, terminated, crashed>>

\* one iteration of the scan loop: hash salt i, post { salt: i } on a match
ScanStep(w) ==
  /\ wstate[w] = "scanning"
  /\ InBounds(wi[w], data[w].max)
  /\ examined' = [examined EXCEPT ![w] = Append(@, wi[w])]
  /\ IF Matches(wi[w])
       THEN /\ posted' = [posted EXCEPT ![w] = Append(@, SaltMsg(wi[w]))]
            /\ inbox' = [inbox EXCEPT ![w] = Append(@, MessageEvent(SaltMsg(wi[w])))]
       ELSE UNCHANGED <<posted, inbox>>
  /\ wi' = [wi EXCEPT ![w] = NextCandidate(wi[w], data[w].workerNumber)]
  /\ UNCHANGED <<inputVars, coordVars, port, wstate, data, listeners, raceVars,
                 termPending, terminated, crashed>>

\* the loop is over: post new Error('Not Found'); the handler returns
ScanEnd(w) ==
  /\ wstate[w] = "scanning"
  /\ ~InBounds(wi[w], data[w].max)
  /\ posted' = [posted EXCEPT ![w] = Append(@, NotFoundMsg)]
  /\ inbox' = [inbox EXCEPT ![w] = Append(@, MessageEvent(NotFoundMsg))]
  /\ wstate' = [wstate EXCEPT ![w] = "idle"]
  /\ UNCHANGED <<inputVars, coordVars, port, data, wi, examined, listeners,
                 raceVars, termPending, terminated, crashed>>

\* an execution fault in the worker thread (uncaught exception, out of
\* memory): the thread dies, the parent gets 'error' and then 'exit' code 1
WorkerFault(w) ==
  /\ wstate[w] \in {"waiting", "scanning"}
  /\ wstate' = [wstate EXCEPT ![w] = "exited"]
  /\ crashed' = crashed \cup {w}
  /\ inbox' = [inbox EXCEPT ![w] = @ \o <<ErrorEvent, ExitEvent(1)>>]
  /\ UNCHANGED <<inputVars, coordVars, port, scanVars, listeners, raceVars,
                 termPending, terminated>>

\* ---------------------------------------------------------------- spawn

AllListeners == {"message", "error", "exit"}

\* one iteration of the spawn loop: spawn({workerNumber, offset: i, max}),
\* workers.push(worker), promises.push(promise)
SpawnStep ==
  /\ pc = "spawn"
  /\ i < workerNum
  /\ port' = [port EXCEPT ![i] = Message(workerNum, i, max)]
  /\ wstate' = [wstate EXCEPT ![i] = "waiting"]
  /\ listeners' = [listeners EXCEPT ![i] = AllListeners]
  /\ promise' = [promise EXCEPT ![i] = Pending]
  /\ workers' = Append(workers, i)
  /\ promises' = Append(promises, i)
  /\ i' = i + 1
  /\ UNCHANGED <<inputVars, pc, result, caught, thrown, scanVars, inbox, anyState,
                 anyValue, anyErrors, received, firstFound, termPending, terminated, crashed>>

\* worker.removeAllListeners(); worker.terminate()  for every worker
TerminateCalled(ws) == [w \in Ids |-> IF w \in Range(ws) THEN {} ELSE listeners[w]]

\* a try block with finally and no catch clause: the error goes on to the caller
CatchRethrows(err) == err

\* catch (error) { console.log('promise error', error) }: nothing is rethrown
CatchClause(err) == Empty

\* a cleanup that is skipped
FinallySkipped(ws) == {}

\* finally { await this.terminate(workers) }: the workers terminate() is called on
FinallyTerminates(ws) == Range(ws)

\* new Worker(...) throws in iteration i: catch logs, finally calls terminate
SpawnThrow ==
  /\ pc = "spawn"
  /\ i < workerNum
  /\ caught' = SpawnError
  /\ thrown' = CatchClause(SpawnError)
  /\ listeners' = TerminateCalled(workers)
  /\ termPending' = FinallyTerminates(workers)
  /\ pc' = "terminating"
  /\ UNCHANGED <<inputVars, i, workers, promises, result, port, wstate, scanVars,
                 inbox, raceVars, crashed, terminated>>

\* the loop is over: Promise.any(promises), and the await suspends
AwaitAny ==
  /\ pc = "spawn"
  /\ ~(i < workerNum)
  /\ anyState' = "pending"
  /\ anyErrors' = [k \in 1 .. Len(promises) |-> Empty]
  /\ pc' = "race"
  /\ UNCHANGED <<inputVars, i, workers, promises, result, caught, thrown, port,
                 wstate, scanVars, inbox, listeners, promise, anyValue, received,
                 firstFound, termPending, terminated, crashed>>

\* ---------------------------------------------------------------- events

Resolve(p, v) == IF p.state = "pending" THEN [state |-> "fulfilled", value |-> v] ELSE p
Reject(p, r) == IF p.state = "pending" THEN [state |-> "rejected", reason |-> r] ELSE p

\* the listener of the Promise.race revision: worker.once('message', resolve)
OnMessageResolves(p, msg) == Resolve(p, msg)

\* a 'message' listener that settles only on success
OnMessageIgnoresFailure(p, msg) == IF IsSuccess(msg) THEN Resolve(p, msg) ELSE p

\* worker.once('message', (msg) => msg.isSuccess ? resolve(msg) : reject(msg))
OnMessage(p, msg) == IF IsSuccess(msg) THEN Resolve(p, msg) ELSE Reject(p, msg)

\* a spawn that registers no 'error' listener
OnErrorIgnored(p, err) == p

\* worker.once('error', reject)
OnError(p, err) == Reject(p, err)

\* worker.once('exit', (code) => { if (code != 0) reject(new Error(...)) })
OnExit(p, code) == IF code # 0 THEN Reject(p, ExitError(code)) ELSE p

Handle(p, e) ==
  CASE e.type = "message" -> OnMessage(p, e.data)
    [] e.type = "error" -> OnError(p, e.err)
    [] e.type = "exit" -> OnExit(p, e.code)

\* a race that gives up at the first rejection
AnyRejectsAtFirst(errs) == \E k \in DOMAIN errs : errs[k] # Empty

\* Promise.any rejects once every input promise has rejected
AnyRejects(errs) == \A k \in DOMAIN errs : errs[k] # Empty

\* the main thread, idle at an await, takes the next event of worker w
Deliver(w) ==
  /\ pc \in {"race", "terminating"}
  /\ inbox[w] # <<>>
  /\ LET e == Head(inbox[w])
         fires == e.type \in listeners[w]
         newp == IF fires THEN Handle(promise[w], e) ELSE promise[w]
         settles == promise[w].state = "pending" /\ newp.state # "pending"
         errs == IF settles /\ newp.state = "rejected"
                   THEN [k \in DOMAIN anyErrors |->
                           IF promises[k] = w THEN newp.reason ELSE anyErrors[k]]
                   ELSE anyErrors
     IN /\ inbox' = [inbox EXCEPT ![w] = Tail(@)]
        /\ listeners' = [listeners EXCEPT ![w] = IF fires THEN @ \ {e.type} ELSE @]
        /\ promise' = [promise EXCEPT ![w] = newp]
        /\ received' = [received EXCEPT ![w] =
                          IF fires /\ e.type = "message" THEN e.data ELSE @]
        /\ firstFound' = IF fires /\ e.type = "message" /\ "salt" \in DOMAIN e.data
                              /\ firstFound = Empty
                           THEN e.data ELSE firstFound
        /\ anyErrors' = errs
        /\ IF anyState = "pending" /\ settles /\ newp.state = "fulfilled"
             THEN anyState' = "fulfilled" /\ anyValue' = newp.value
             ELSE IF anyState = "pending" /\ settles /\ AnyRejects(errs)
                    THEN anyState' = "rejected" /\ anyValue' = AggregateError(errs)
                    ELSE UNCHANGED <<anyState, anyValue>>
  /\ UNCHANGED <<inputVars, coordVars, port, wstate, scanVars, termPending, terminated, crashed>>

\* ---------------------------------------------------------------- finish

\* Promise.any(promises) without the await: the finally block runs at once
RaceNotAwaited == anyState \in {"pending", "fulfilled", "rejected"}

\* await Promise.any(promises): suspended until the race promise settles
RaceSettled == anyState \in {"fulfilled", "rejected"}

\* the await of Promise.any returns or throws; catch; finally terminate(workers)
Resume ==
  /\ pc = "race"
  /\ RaceSettled
  /\ IF anyState = "fulfilled"
       THEN result' = anyValue /\ UNCHANGED <<caught, thrown>>
       ELSE caught' = anyValue /\ thrown' = CatchClause(anyValue) /\ UNCHANGED result
  /\ listeners' = TerminateCalled(workers)
  /\ termPending' = FinallyTerminates(workers)
  /\ pc' = "terminating"
  /\ UNCHANGED <<inputVars, i, workers, promises, port, wstate, scanVars, inbox,
                 raceVars, crashed, terminated>>

\* worker.terminate() of worker w resolves: its thread is gone
TerminateConfirm(w) ==
  /\ pc = "terminating"
  /\ w \in termPending
  /\ wstate' = [wstate EXCEPT ![w] = "exited"]
  /\ termPending' = termPending \ {w}
  /\ terminated' = terminated \cup {w}
  /\ UNCHANGED <<inputVars, coordVars, port, scanVars, inbox, listeners,
                 raceVars, crashed>>

\* terminate() calls that are not awaited
TerminateNotAwaited == TRUE

\* await Promise.all(...) of terminate is over
TerminateDone == termPending = {}

\* return result, unless an error that was not caught goes on to the caller
Return ==
  /\ pc = "terminating"
  /\ TerminateDone
  /\ pc' = IF thrown = Empty THEN "done" ELSE "threw"
  /\ UNCHANGED <<inputVars, coordVars0, port, wstate, scanVars,
                 inbox, listeners, raceVars, termPending, terminated, crashed>>

\* ---------------------------------------------------------------- system

Init ==
  /\ workerNum \in 1 .. MaxWorkerNum
  /\ max \in 0 .. MaxMax
  /\ probe \in SUBSET (0 .. (max - 1))
  /\ pc = "spawn"
  /\ i = 0
  /\ workers = <<>>
  /\ promises = <<>>
  /\ result = Undefined
  /\ caught = Empty
  /\ thrown = Empty
  /\ port = [w \in Ids |-> Empty]
  /\ wstate = [w \in Ids |-> "none"]
  /\ data = [w \in Ids |-> Empty]
  /\ wi = [w \in Ids |-> 0]
  /\ examined = [w \in Ids |-> <<>>]
  /\ posted = [w \in Ids |-> <<>>]
  /\ inbox = [w \in Ids |-> <<>>]
  /\ listeners = [w \in Ids |-> {}]
  /\ promise = [w \in Ids |-> Empty]
  /\ anyState = "none"
  /\ anyValue = Empty
  /\ anyErrors = <<>>
  /\ termPending = {}
  /\ terminated = {}
  /\ crashed = {}
  /\ received = [w \in Ids |-> Empty]
  /\ firstFound = Empty

Next ==
  \/ SpawnStep
  \/ SpawnThrow
  \/ AwaitAny
  \/ Resume
  \/ Return
  \/ \E w \in Ids : WorkerReceive(w)
  \/ \E w \in Ids : ScanStep(w)
  \/ \E w \in Ids : ScanEnd(w)
  \/ \E w \in Ids : WorkerFault(w)
  \/ \E w \in Ids : Deliver(w)
  \/ \E w \in Ids : TerminateConfirm(w)

Spec == Init /\ [][Next]_vars

\* the main thread: the synchronous stretches of heavyComputation and the
\* callbacks its event loop runs
MainThread ==
  \/ SpawnStep
  \/ AwaitAny
  \/ Resume
  \/ Return
  \/ \E w \in Ids : Deliver(w)
  \/ \E w \in Ids : TerminateConfirm(w)

\* the thread of worker w: the message handler of salt.worker
WorkerThread(w) ==
  /\ w \in Ids
  /\ (WorkerReceive(w) \/ ScanStep(w) \/ ScanEnd(w))

\* every thread that can run does run; no fault is ever bound to happen
FairSpec ==
  /\ Spec
  /\ WF_vars(MainThread)
  /\ \A w \in 0 .. (MaxWorkerNum - 1) : WF_vars(WorkerThread(w))

\* ------------------------------------------- the Promise.race revision

\* worker.once('message', resolve)
OnMessageRace(p, msg) == Resolve(p, msg)

HandleRace(p, e) ==
  CASE e.type = "message" -> OnMessageRace(p, e.data)
    [] e.type = "error" -> OnError(p, e.err)
    [] e.type = "exit" -> OnExit(p, e.code)

\* the loop is over: Promise.race(promises), and the await suspends
AwaitRace ==
  /\ pc = "spawn"
  /\ ~(i < workerNum)
  /\ anyState' = "pending"
  /\ pc' = "race"
  /\ UNCHANGED <<inputVars, i, workers, promises, result, caught, thrown, port,
                 wstate, scanVars, inbox, listeners, promise, anyValue, anyErrors,
                 received, firstFound, termPending, terminated, crashed>>

\* an event of worker w is handled; Promise.race settles as the first promise does
DeliverRace(w) ==
  /\ pc \in {"race", "terminating"}
  /\ inbox[w] # <<>>
  /\ LET e == Head(inbox[w])
         fires == e.type \in listeners[w]
         newp == IF fires THEN HandleRace(promise[w], e) ELSE promise[w]
         settles == promise[w].state = "pending" /\ newp.state # "pending"
     IN /\ inbox' = [inbox EXCEPT ![w] = Tail(@)]
        /\ listeners' = [listeners EXCEPT ![w] = IF fires THEN @ \ {e.type} ELSE @]
        /\ promise' = [promise EXCEPT ![w] = newp]
        /\ received' = [received EXCEPT ![w] =
                          IF fires /\ e.type = "message" THEN e.data ELSE @]
        /\ firstFound' = IF fires /\ e.type = "message" /\ "salt" \in DOMAIN e.data
                              /\ firstFound = Empty
                           THEN e.data ELSE firstFound
        /\ IF anyState = "pending" /\ settles
             THEN /\ anyState' = newp.state
                  /\ anyValue' = IF newp.state = "fulfilled" THEN newp.value
                                                              ELSE newp.reason
             ELSE UNCHANGED <<anyState, anyValue>>
  /\ UNCHANGED <<inputVars, coordVars, port, wstate, scanVars, anyErrors,
                 termPending, terminated, crashed>>

\* for (const worker of workers): the next worker of the loop of terminate
NextToTerminate == workers[Cardinality(terminated) + 1]

\* terminate's loop: worker.removeAllListeners(); await worker.terminate()
TerminateOne ==
  /\ Cardinality(terminated) < Len(workers)
  /\ listeners' = [listeners EXCEPT ![NextToTerminate] = {}]
  /\ termPending' = {NextToTerminate}

\* try { ... } finally { ... } has no catch: a throw of new Worker goes on
\* to the caller once terminate has stopped the workers spawned so far
SpawnThrowRace ==
  /\ pc = "spawn"
  /\ i < workerNum
  /\ thrown' = SpawnError
  /\ IF workers = <<>> THEN UNCHANGED <<listeners, termPending>> ELSE TerminateOne
  /\ pc' = "terminating"
  /\ UNCHANGED <<inputVars, i, workers, promises, result, caught, port, wstate,
                 scanVars, inbox, raceVars, crashed, terminated>>

\* the await of Promise.race returns or throws; finally terminate(workers)
ResumeRace ==
  /\ pc = "race"
  /\ RaceSettled
  /\ IF anyState = "fulfilled"
       THEN result' = anyValue /\ UNCHANGED thrown
       ELSE thrown' = anyValue /\ UNCHANGED result
  /\ TerminateOne
  /\ pc' = "terminating"
  /\ UNCHANGED <<inputVars, i, workers, promises, caught, port, wstate, scanVars,
                 inbox, raceVars, crashed, terminated>>

\* the awaited terminate() has resolved: the loop goes on to the next worker
TerminateNext ==
  /\ pc = "terminating"
  /\ termPending = {}
  /\ TerminateOne
  /\ UNCHANGED <<inputVars, coordVars, port, wstate, scanVars, inbox, raceVars,
                 crashed, terminated>>

\* the loop of terminate is over: return result, or the pending throw goes on
ReturnRace ==
  /\ pc = "terminating"
  /\ termPending = {}
  /\ Cardinality(terminated) = Len(workers)
  /\ pc' = IF thrown = Empty THEN "done" ELSE "threw"
  /\ UNCHANGED <<inputVars, coordVars0, port, wstate, scanVars,
                 inbox, listeners, raceVars, termPending, terminated, crashed>>

NextRace ==
  \/ SpawnStep
  \/ SpawnThrowRace
  \/ AwaitRace
  \/ ResumeRace
  \/ TerminateNext
  \/ ReturnRace
  \/ \E w \in Ids : WorkerReceive(w)
  \/ \E w \in Ids : ScanStep(w)
  \/ \E w \in Ids : ScanEnd(w)
  \/ \E w \in Ids : WorkerFault(w)
  \/ \E w \in Ids : DeliverRace(w)
  \/ \E w \in Ids : TerminateConfirm(w)

SpecRace == Init /\ [][NextRace]_vars

\* ------------------------------------------------- spawn with mocked workers

\* class WorkerResp { isSuccess; data?: { salt, address }; error?: { message } }
SuccessResp == [isSuccess |-> TRUE, data |-> [salt |-> 0, address |-> "0xd3ad"]]
FailureResp == [isSuccess |-> FALSE, error |-> [message |-> "Not found"]]

\* the events a Worker object can hand to the listeners of spawn
MockEvents ==
  {MessageEvent(SuccessResp), MessageEvent(FailureResp), MessageEvent(NotFoundMsg),
   ErrorEvent, ExitEvent(0), ExitEvent(1)}

RECURSIVE EmittedUpTo(_)
EmittedUpTo(w) == IF w < 0 THEN 0 ELSE Len(posted[w]) + EmittedUpTo(w - 1)

\* a live worker emits event e; here posted records every event it emitted
MockEmit(w, e) ==
  /\ wstate[w] = "waiting"
  /\ EmittedUpTo(workerNum - 1) < MaxEvents
  /\ posted' = [posted EXCEPT ![w] = Append(@, e)]
  /\ inbox' = [inbox EXCEPT ![w] = Append(@, e)]
  /\ wstate' = [wstate EXCEPT ![w] = IF e.type = "exit" THEN "exited" ELSE @]
  /\ crashed' = IF e.type = "error" \/ (e.type = "exit" /\ e.code # 0)
                  THEN crashed \cup {w} ELSE crashed
  /\ UNCHANGED <<inputVars, coordVars, port, data, wi, examined, listeners,
                 raceVars, termPending, terminated>>

InitMock == Init /\ workerNum <= MaxMockWorkers /\ max = 0 /\ probe = {}

NextMock ==
  \/ SpawnStep
  \/ AwaitAny
  \/ Resume
  \/ Return
  \/ \E w \in Ids : \E e \in MockEvents : MockEmit(w, e)
  \/ \E w \in Ids : Deliver(w)
  \/ \E w \in Ids : TerminateConfirm(w)

SpecMock == InitMock /\ [][NextMock]_vars

\* ---------------------------------------------------------------- claims

\* the Message worker w was spawned with, before or after it received it
TaskOf(w) == IF port[w] # Empty THEN port[w] ELSE data[w]

IsPrefix(a, b) == Len(a) <= Len(b) /\ \A k \in 1 .. Len(a) : a[k] = b[k]

\* the salts a returned value carries, as { salt } or as { isSuccess, data: { salt } }
ResultSalts(r) ==
  (IF "salt" \in DOMAIN r THEN {r.salt} ELSE {})
    \cup (IF IsSuccess(r) /\ "data" \in DOMAIN r THEN {r.data.salt} ELSE {})

SpawnedAll == Len(workers) = workerNum

\* C1: if some candidate below max satisfies the predicate, every completed
\* run (all workers spawned, none faulted) returns a found result whose salt
\* satisfies the predicate.
C1_MatchIsReturned ==
  (pc = "done" /\ SpawnedAll /\ crashed = {} /\ probe # {})
    => (result # Undefined /\ ResultSalts(result) # {} /\ ResultSalts(result) \subseteq probe)

\* C2: if no candidate satisfies the predicate, the run returns no result
\* (undefined), and when its race ran, the AggregateError of the race holds
\* one rejection per spawned worker: workerNum failures, each worker once.
C2_NoMatchAllCounted ==
  (pc = "done" /\ probe = {}) =>
    /\ result = Undefined
    /\ SpawnedAll =>
         /\ "errors" \in DOMAIN caught
         /\ caught.name = "AggregateError"
         /\ Len(caught.errors) = workerNum
         /\ \A k \in 1 .. workerNum :
              /\ promises[k] = k - 1
              /\ promise[promises[k]].state = "rejected"
              /\ caught.errors[k] = promise[promises[k]].reason

C2_Witness ==
  /\ pc = "done" /\ probe = {} /\ SpawnedAll
  /\ workerNum = 2 /\ max = 4 /\ crashed = {}
  /\ \A w \in Ids : received[w] = NotFoundMsg

\* C3: once heavyComputation has returned, every worker it spawned is
\* stopped, and no other worker was ever started.
C3_AllStoppedOnReturn ==
  pc = "done" =>
    /\ \A k \in 1 .. Len(workers) : wstate[workers[k]] = "exited"
    /\ \A w \in Ids \ Range(workers) : wstate[w] = "none"

C3_Witness ==
  /\ pc = "done" /\ Len(workers) = 2
  /\ \E w \in Ids : w \notin crashed /\ data[w] # Empty /\ wi[w] < max

\* C4: the tasks handed to the workers (offset w, stride workerNum, bound
\* max) define partitions that are pairwise disjoint, free of duplicates and
\* whose union is 0 .. max-1; each worker's scan visits its partition in order.
C4_PartitionsDisjointCover ==
  SpawnedAll =>
    LET part(w) == Partition(TaskOf(w)) IN
    /\ \A w \in Ids : TaskOf(w) = Message(workerNum, w, max)
    /\ \A w \in Ids : Cardinality(Range(part(w))) = Len(part(w))
    /\ \A a, b \in Ids : a # b => Range(part(a)) \cap Range(part(b)) = {}
    /\ UNION {Range(part(w)) : w \in Ids} = 0 .. (max - 1)
    /\ \A w \in Ids : /\ IsPrefix(examined[w], part(w))
                      /\ wstate[w] = "idle" => examined[w] = part(w)

C4_Witness ==
  /\ SpawnedAll /\ workerNum = 2 /\ max = 4
  /\ \A w \in Ids : wstate[w] = "idle" /\ Len(examined[w]) = 2

\* C5: a fault in one worker does not fail the run: when another worker
\* reports a found salt, the completed run returns that found result.
C5_FaultDoesNotFailRun ==
  (pc = "done" /\ \E w \in crashed : \E v \in Ids \ {w} : "salt" \in DOMAIN received[v])
    => /\ ResultSalts(result) # {}
       /\ ResultSalts(result) \subseteq
            {received[v].salt : v \in {u \in Ids : "salt" \in DOMAIN received[u]}}

C7_StopAfterRaceBeforeReturn ==
  [][ /\ (pc # "terminating" /\ pc' = "terminating") =>
           \/ anyState \in {"fulfilled", "rejected"} /\ anyState' = anyState
           \/ anyState = "none" /\ pc = "spawn" /\ caught' = SpawnError
      /\ termPending' # termPending => pc' = "terminating"
      /\ (\E w \in Ids : wstate[w] # "exited" /\ wstate'[w] = "exited" /\ w \notin crashed')
           => pc = "terminating"
      /\ (pc # "done" /\ pc' = "done") =>
           /\ pc = "terminating"
           /\ \A k \in 1 .. Len(workers) : wstate[workers[k]] = "exited"
      /\ pc = "done" => \A k \in 1 .. Len(workers) : wstate'[workers[k]] = "exited"
    ]_vars

C7_Witness ==
  /\ pc = "done" /\ anyState = "rejected" /\ Len(workers) = 2
  /\ \A w \in Ids : wstate[w] = "exited" /\ w \notin crashed

\* C8: the first found salt a message listener receives fixes the result of
\* the run: once the race is over the result is that salt, whatever arrives later.
C8_FirstFoundFixesResult ==
  (pc \in {"terminating", "done"} /\ firstFound # Empty)
    => ResultSalts(result) = {firstFound.salt}

\* C9: each worker posts exactly one outcome message per task: never more
\* than one, and exactly one once its handler has returned.
C9_ExactlyOneOutcome ==
  \A w \in Ids : /\ Len(posted[w]) <= 1
                 /\ wstate[w] = "idle" => Len(posted[w]) = 1

\* C10: when the scan reaches a candidate that satisfies the predicate it
\* posts the salt and stops: no later candidate is examined and no
\* 'Not Found' is posted.
C10_StopsAtFirstMatch ==
  \A w \in Ids : \A k \in 1 .. Len(examined[w]) :
    Matches(examined[w][k]) =>
      /\ k = Len(examined[w])
      /\ SaltMsg(examined[w][k]) \in Range(posted[w])
      /\ NotFoundMsg \notin Range(posted[w])

\* heavyComputation is over: it returned, or it threw to its caller
Ended == pc \in {"done", "threw"}

\* C11: heavyComputation raises no fault for 'no match found': when every
\* worker reported 'Not Found', or no candidate matches at all, the run ends
\* by returning (undefined) and nothing is thrown to the caller.
C11_NoMatchIsNotThrown ==
  (Ended /\ (probe = {} \/ (SpawnedAll /\ \A w \in Ids : received[w] = NotFoundMsg)))
    => (pc = "done" /\ thrown = Empty /\ result = Undefined)

C11_Witness ==
  /\ pc = "done" /\ SpawnedAll /\ workerNum = 2
  /\ \A w \in Ids : received[w] = NotFoundMsg
  /\ "errors" \in DOMAIN caught

\* C12: when new Worker(...) throws in the spawn loop, the fault reaches the
\* caller of heavyComputation instead of becoming a normal return value.
C12_SpawnFaultPropagates ==
  (Ended /\ caught = SpawnError) => (pc = "threw" /\ thrown = SpawnError)

\* C13: terminate runs on every exit path: when the run is over, also after
\* a throw of the spawn loop or a rejected race, terminate() was called on
\* every worker spawned so far and each call was awaited.
C13_TerminateOnEveryPath ==
  Ended =>
    /\ terminated = Range(workers)
    /\ termPending = {}
    /\ \A w \in Range(workers) : wstate[w] = "exited" /\ listeners[w] = {}

C13_Witness ==
  /\ pc = "done" /\ caught = SpawnError
  /\ workerNum = 2 /\ workers = <<0>> /\ terminated = {0}
  /\ 0 \notin crashed /\ wstate[0] = "exited"

\* C17: a worker whose offset is not below max has an empty partition: it
\* examines no candidate, the only message it posts is 'Not Found', and the
\* run still ends by returning.
C17_EmptyPartition ==
  /\ \A w \in Ids :
       (data[w] # Empty /\ data[w].offset >= data[w].max) =>
         /\ Partition(data[w]) = <<>>
         /\ examined[w] = <<>>
         /\ posted[w] \in {<<>>, <<NotFoundMsg>>}
         /\ wstate[w] = "idle" => posted[w] = <<NotFoundMsg>>
  /\ (Ended /\ \E w \in Ids : data[w] # Empty /\ data[w].offset >= data[w].max)
       => (pc = "done" /\ thrown = Empty)

C17_Witness ==
  /\ pc = "done" /\ SpawnedAll /\ workerNum = 2 /\ max = 1
  /\ data[1] # Empty /\ examined[1] = <<>>
  /\ posted[1] = <<NotFoundMsg>> /\ received[1] = NotFoundMsg

\* a step in which the main thread takes the next event of worker w
Delivered(w) == inbox[w] # <<>> /\ inbox'[w] = Tail(inbox[w])

\* that event is handed to a listener spawn registered and has not yet used
Heard(w, type) == Head(inbox[w]).type = type /\ type \in listeners[w]

IsPending(p) == "state" \in DOMAIN p /\ p.state = "pending"
IsSettled(p) == "state" \in DOMAIN p /\ p.state # "pending"

C16_SpawnPromiseSettlement ==
  [][ \A w \in Ids :
        /\ IsSettled(promise[w]) => promise'[w] = promise[w]
        /\ IsPending(promise[w]) =>
             LET e == Head(inbox[w]) IN
             /\ promise'[w].state = "fulfilled"
                  <=> (Delivered(w) /\ Heard(w, "message") /\ IsSuccess(e.data))
             /\ promise'[w].state = "fulfilled" => promise'[w].value = e.data
             /\ promise'[w].state = "rejected"
                  <=> /\ Delivered(w)
                      /\ \/ Heard(w, "message") /\ ~IsSuccess(e.data)
                         \/ Heard(w, "error")
                         \/ Heard(w, "exit") /\ e.code # 0
             /\ promise'[w].state = "rejected" =>
                  promise'[w].reason =
                    (CASE e.type = "message" -> e.data
                       [] e.type = "error" -> e.err
                       [] e.type = "exit" -> ExitError(e.code))
    ]_vars

C16_Witness ==
  /\ promise[0] = [state |-> "fulfilled", value |-> SuccessResp]
  /\ posted[0] = <<MessageEvent(SuccessResp), ExitEvent(1)>>
  /\ inbox[0] = <<>> /\ pc = "race"

\* C15: in the Promise.race revision the value returned is the first
\* successful result: when some worker posted a found salt (and no worker
\* faulted), the run does not return a 'Not Found' message.
C15_RaceReturnsFirstSuccess ==
  (pc = "done" /\ SpawnedAll /\ crashed = {}
     /\ \E v \in Ids : \E k \in 1 .. Len(posted[v]) : "salt" \in DOMAIN posted[v][k])
    => (result # NotFoundMsg /\ ResultSalts(result) # {})

\* C18: under fair scheduling of the main thread and of the workers every
\* invocation of heavyComputation eventually returns to its caller: a race
\* that is awaited eventually settles, and a termination that has begun
\* eventually completes for every worker.
C18_EventuallyReturns ==
  /\ <>(pc = "done")
  /\ (pc = "race") ~> RaceSettled
  /\ (pc = "terminating") ~> (pc = "done" /\ termPending = {})

\* a run has returned after racing workers that scanned, every one stopped
C18_Witness ==
  /\ pc = "done"
  /\ SpawnedAll
  /\ RaceSettled
  /\ terminated = Range(workers)
  /\ \E w \in Ids : examined[w] # <<>>

====
